---------------------------- MODULE Spec2Model ----------------------------
(***************************************************************************)
(* CharacterProfiler (character_profiler.py): the process-wide symbology   *)
(* and symbol-table caches filled by the constructor, the extraction of    *)
(* the symbol table from a reference document, and the per-attribute       *)
(* resolvers behind profile_character.                                     *)
(*                                                                         *)
(* Python values are encoded as follows.                                   *)
(*   str            a TLA+ string                                          *)
(*   None           the string PyNone, which no input string equals        *)
(*   list of str    a sequence of strings                                  *)
(*   dict of str    a function from its keys to strings ("StrDict")        *)
(*   a dict whose values are strings or dicts (an element, a modality, the *)
(*   "zodiac" entry): [s |-> its string-valued items,                      *)
(*                     d |-> its dict-valued items]     ("Entry"; the two  *)
(*   domains are disjoint, as one key has one value)                       *)
(*   an object reference to a loaded document: its index in heap           *)
(***************************************************************************)
EXTENDS Integers, Sequences, FiniteSets, TLC

VARIABLES
    files,            \* the file system: identifier -> what open/json.load finds
    heap,             \* the document objects json.load has returned, by reference
    _symbology_cache, \* CharacterProfiler._symbology_cache: identifier -> reference
    _symbols_cache,   \* CharacterProfiler._symbols_cache: identifier -> symbol table
    inst,             \* the constructed profilers: file, self.symbology, self.symbols
    thr,              \* the constructor calls running concurrently, one per thread
    ret,              \* the last call: its operation, arguments and outcome
    prev,             \* the profile_character call before the last one
    loadedBy,         \* identifier -> the first instance loaded since the last clear
    arg               \* the character description a resolver run is about

vars ==
    <<files, heap, _symbology_cache, _symbols_cache, inst, thr, ret, prev, loadedBy,
      arg>>

-----------------------------------------------------------------------------
(* Bounds *)

MaxTraits == 2      \* longest PersonalityTraits list
MaxInst == 2        \* profilers, and documents read, in a sequential run
NumThreads == 2     \* constructor calls running concurrently

-----------------------------------------------------------------------------
(* Python values *)

PyNone == "<None>"

EmptyDict == <<>>

\* d.get(k) on a dict of strings
Get(d, k) == IF k \in DOMAIN d THEN d[k] ELSE PyNone

Without(d, k) == [x \in DOMAIN d \ {k} |-> d[x]]

\* a dict with string values only, as an Entry
StrEntry(d) == [s |-> d, d |-> EmptyDict]

\* k in entry
HasKey(entry, k) == k \in DOMAIN entry.s \/ k \in DOMAIN entry.d

\* entry[k] = v for a dict v: the key's earlier value, of either kind, is replaced
SetItem(entry, k, v) == [s |-> Without(entry.s, k), d |-> (k :> v) @@ entry.d]

-----------------------------------------------------------------------------
(* Reference documents: hasSection -> sections (name, hasConcept) ->        *)
(* concept groups ("@type", hasElement / hasModality / hasZodiacSign).      *)
(* A list key that a group lacks reads as the empty list, as .get(key, [])  *)
(* reads it.                                                                *)

FrameworkName == "Universal Symbology Framework"

Group(type, elements, modalities, signs) ==
    [type |-> type, hasElement |-> elements, hasModality |-> modalities,
     hasZodiacSign |-> signs]

ElementGroup(es) == Group("ElementGroup", es, <<>>, <<>>)
ModalityGroup(ms) == Group("ModalityGroup", <<>>, ms, <<>>)
AstrologicalIntegration(zs) == Group("AstrologicalIntegration", <<>>, <<>>, zs)

Element(name, description) == StrEntry([name |-> name, description |-> description])
Modality(type, name) == StrEntry([modalityType |-> type, name |-> name])

Section(name, groups) == [name |-> name, hasConcept |-> groups]
Document(sections) == [hasSection |-> sections]
Framework(groups) ==
    Document(<<Section("Introduction", <<>>), Section(FrameworkName, groups)>>)

GE == ElementGroup(<<Element("Fire", "Energy"), Element("Water", "Emotion")>>)
GM == ModalityGroup(<<Modality("Cardinal", "Initiation"), Modality("Fixed", "Stability")>>)
GA == AstrologicalIntegration(
        <<[name |-> "Aries", element |-> "Fire", modality |-> "Cardinal"],
          [name |-> "Leo"]>>)
GD == Group("DualityGroup", <<>>, <<>>, <<>>)
\* an element and a modality registered under supplemental names
GEsup == ElementGroup(<<Element("Triangle", "Three sides")>>)
GMsup == ModalityGroup(<<Modality("Point", "Dot")>>)
\* modalities registered under the resolvers' default keys, one without a name
GMdef == ModalityGroup(<<Modality("UnknownRole", "Scholarly"),
                         StrEntry([modalityType |-> "DefaultNameSymbol"])>>)
\* an element whose name is the table's "zodiac" key
GEz == ElementGroup(<<Element("zodiac", "The belt of signs")>>)
\* a sign whose name is the empty string
GAe == AstrologicalIntegration(<<[name |-> "", element |-> "Void"]>>)
\* an element without a name
GEbad == ElementGroup(<<StrEntry([description |-> "Nameless"])>>)

DocNoSections == Document(<<>>)
DocOtherSection == Document(<<Section("Introduction", <<GE, GA>>)>>)
DocNoGroups == Framework(<<>>)
DocPlain == Framework(<<GD, GE, GM, GA>>)
DocSupplementalNames == Framework(<<GEsup, GMsup, GA>>)
DocDefaultKeys == Framework(<<GMdef, GA>>)
DocZodiacFirst == Framework(<<GEz, GA>>)
DocZodiacLast == Framework(<<GA, GEz>>)
DocEmptySign == Framework(<<GA, GAe>>)
DocTwoFrameworks ==
    Document(<<Section(FrameworkName, <<GA>>), Section(FrameworkName, <<GE>>)>>)
DocNameless == Framework(<<GE, GEbad>>)

\* the documents _extract_symbols returns a table for
ValidDocs ==
    {DocNoSections, DocOtherSection, DocNoGroups, DocPlain, DocSupplementalNames,
     DocDefaultKeys, DocZodiacFirst, DocZodiacLast, DocEmptySign, DocTwoFrameworks}

Docs == ValidDocs \cup {DocNameless}

-----------------------------------------------------------------------------
(* _find_section and _extract_symbols *)

\* The index of the first section of the document with this name, 0 for None.
RECURSIVE FindFrom(_, _, _)
FindFrom(sections, section_name, i) ==
    IF i > Len(sections) THEN 0
    ELSE IF sections[i].name = section_name THEN i
    ELSE FindFrom(sections, section_name, i + 1)

_find_section(symbology, section_name) ==
    FindFrom(symbology.hasSection, section_name, 1)

Symbol(name, description) == StrEntry([name |-> name, description |-> description])

SupplementalSymbols ==
    [Point |-> Symbol("Point", "Existence, Origin, Singularity"),
     Line |-> Symbol("Line", "Connection, Continuity, Direction"),
     Angle |-> Symbol("Angle", "Intersection, Divergence, Relationship"),
     Curve |-> Symbol("Curve", "Change, Fluidity, Transformation"),
     Circle |-> Symbol("Circle", "Unity, Wholeness, Cycles"),
     Triangle |-> Symbol("Triangle", "Stability, Harmony, Balance"),
     Square |-> Symbol("Square", "Structure, Order, Foundation"),
     Spiral |-> Symbol("Spiral", "Growth, Evolution, Expansion"),
     Wave |-> Symbol("Wave", "Vibration, Energy, Frequency"),
     SwordSymbol |-> Symbol("SwordSymbol", "Symbol for a Warrior"),
     StarSymbol |-> Symbol("StarSymbol", "Symbol for a Mage or Star"),
     SunSymbol |-> Symbol("SunSymbol", "Symbol for Sun")]

\* symbols = {"zodiac": {}}
InitialSymbols == [zodiac |-> StrEntry(EmptyDict)]

\* The table's "zodiac" entry is a dict of the table's own (g = 0) or, once an
\* element or modality was registered under "zodiac", that very object of the
\* document: item e of list k of concept group g.
OwnZodiac == [g |-> 0, k |-> "", e |-> 0]

ExtractionStart(symbology) ==
    [symbols |-> InitialSymbols, doc |-> symbology, zref |-> OwnZodiac, raised |-> ""]

Raise(st, error) == [st EXCEPT !.raised = error]

\* symbols[item[keyField]] = item, for an element (keyField "name") or a
\* modality (keyField "modalityType"); the table holds the document's object.
RegisterByKey(st, si, gi, kind, ei, keyField) ==
    LET item == st.doc.hasSection[si].hasConcept[gi][kind][ei]
    IN  IF keyField \in DOMAIN item.s
        THEN LET key == item.s[keyField]
             IN  [st EXCEPT !.symbols = (key :> item) @@ st.symbols,
                            !.zref = IF key = "zodiac"
                                     THEN [g |-> gi, k |-> kind, e |-> ei]
                                     ELSE @]
        ELSE IF keyField \in DOMAIN item.d
        THEN Raise(st, "TypeError")      \* a dict is no dictionary key
        ELSE Raise(st, "KeyError")

\* symbols["zodiac"][sign["name"]] = sign: a write into whichever object the
\* table's "zodiac" entry is.
RegisterSign(st, si, gi, ei) ==
    LET sign == st.doc.hasSection[si].hasConcept[gi].hasZodiacSign[ei]
    IN  IF "name" \notin DOMAIN sign
        THEN Raise(st, "KeyError")
        ELSE LET z == SetItem(st.symbols["zodiac"], sign.name, sign)
             IN  [st EXCEPT
                    !.symbols = [st.symbols EXCEPT !["zodiac"] = z],
                    !.doc = IF st.zref.g = 0
                            THEN @
                            ELSE [@ EXCEPT !.hasSection[si].hasConcept[st.zref.g]
                                             [st.zref.k][st.zref.e] = z]]

RegisterItem(st, si, gi, kind, ei) ==
    CASE kind = "hasElement" -> RegisterByKey(st, si, gi, kind, ei, "name")
      [] kind = "hasModality" -> RegisterByKey(st, si, gi, kind, ei, "modalityType")
      [] kind = "hasZodiacSign" -> RegisterSign(st, si, gi, ei)

\* for item in concept_group.get(kind, []), from item ei on
RECURSIVE RegisterItems(_, _, _, _, _)
RegisterItems(st, si, gi, kind, ei) ==
    IF st.raised # "" \/ ei > Len(st.doc.hasSection[si].hasConcept[gi][kind])
    THEN st
    ELSE RegisterItems(RegisterItem(st, si, gi, kind, ei), si, gi, kind, ei + 1)

\* if concept_group.get("@type") == type: for item in concept_group.get(kind, [])
IfType(st, si, gi, type, kind) ==
    IF st.raised = "" /\ st.doc.hasSection[si].hasConcept[gi].type = type
    THEN RegisterItems(st, si, gi, kind, 1)
    ELSE st

ExtractGroup(st, si, gi) ==
    IfType(IfType(IfType(st, si, gi, "ElementGroup", "hasElement"),
                  si, gi, "ModalityGroup", "hasModality"),
           si, gi, "AstrologicalIntegration", "hasZodiacSign")

\* for concept_group in framework.get("hasConcept", []), from group gi on
RECURSIVE ExtractGroups(_, _, _)
ExtractGroups(st, si, gi) ==
    IF st.raised # "" \/ gi > Len(st.doc.hasSection[si].hasConcept)
    THEN st
    ELSE ExtractGroups(ExtractGroup(st, si, gi), si, gi + 1)

\* Faulty variant: the fixed symbols are written first, so a document entry of the same
\* name replaces them.
AddSupplementalFirst(symbols) == symbols @@ SupplementalSymbols

\* The twelve assignments symbols["Point"] = ... to symbols["SunSymbol"] = ...
AddSupplemental(symbols) == SupplementalSymbols @@ symbols

\* _extract_symbols on the document object self.symbology: the table it returns
\* (or the error it raises) and the document object as the call leaves it.
_extract_symbols(symbology) ==
    LET si == _find_section(symbology, FrameworkName)
        st == ExtractGroups(ExtractionStart(symbology), si, 1)
    IN  IF si = 0
        THEN [raised |-> "", symbols |-> InitialSymbols, doc |-> symbology]
        ELSE IF st.raised # ""
        THEN [raised |-> st.raised, symbols |-> EmptyDict, doc |-> st.doc]
        ELSE [raised |-> "", symbols |-> AddSupplemental(st.symbols), doc |-> st.doc]

-----------------------------------------------------------------------------
(* Character descriptions: a dict with the keys that are present. *)

TraitNames == {"Brave", "Wise", "Mysterious", "Compassionate", "Leader", "Funny"}

TraitLists == UNION {[1..n -> TraitNames] : n \in 0..MaxTraits}

\* the key absent, or present with one of the values
Optional(key, values) == {EmptyDict} \cup {key :> v : v \in values}

TraitOpts == Optional("PersonalityTraits", TraitLists)
OriginOpts == Optional("Origin", {"Celestial", "Earth"})
RoleOpts == Optional("Role", {"Warrior", "Mage", "Scholar"})
AstroOpts ==
    Optional("AstrologicalData",
             {EmptyDict} \cup {[ZodiacSign |-> z] :
                                  z \in {"", "Aries", "Leo", "Wobblesign", "name"}})
NameDataOpts ==
    Optional("NameData",
             {EmptyDict} \cup {[NameMeaning |-> m] : m \in {"Star", "Sun", "Moon"}})

\* the character of test_character_profiler.py and benchmark_performance.py
TestCharacter ==
    [Name |-> "TestCharacter", Origin |-> "Celestial", Role |-> "Mage",
     PersonalityTraits |-> <<"Brave", "Wise", "Mysterious">>,
     Abilities |-> <<"Magic">>, Goals |-> <<"Test">>,
     AstrologicalData |-> [ZodiacSign |-> "Aries"],
     NameData |-> [NameMeaning |-> "Star"]]

\* every trait list with every origin, alone and beside the other keys
TraitCharacters ==
    {t @@ o @@ rest : t \in TraitOpts, o \in OriginOpts,
                      rest \in {EmptyDict, TestCharacter}}

\* every role, zodiac sign and name meaning with every origin
OtherCharacters ==
    {t @@ o @@ r @@ a @@ n :
        t \in {EmptyDict, [PersonalityTraits |-> <<"Brave", "Wise">>]},
        o \in OriginOpts, r \in RoleOpts, a \in AstroOpts, n \in NameDataOpts}

Characters == TraitCharacters \cup OtherCharacters \cup {TestCharacter}

\* the characters of a run that is about the caches
FewCharacters ==
    {TestCharacter, [Role |-> "Scholar", AstrologicalData |-> [ZodiacSign |-> "name"]]}

-----------------------------------------------------------------------------
(* The resolvers. symbols is self.symbols. *)

\* dict.get(key, default)
GetOr(d, key, default) == IF key \in DOMAIN d THEN d[key] ELSE default

\* entry.get(key) on a table entry
EntryGet(entry, key) ==
    IF key \in DOMAIN entry.s THEN entry.s[key]
    ELSE IF key \in DOMAIN entry.d THEN entry.d[key]
    ELSE PyNone

Contains(seq, x) == \E i \in 1..Len(seq) : seq[i] = x

Returned(value) == [raised |-> "", value |-> value]
Raised(error) == [raised |-> error, value |-> PyNone]

\* Faulty variant: the origin is checked before the traits.
CoreSymbolOriginFirst(symbols, character_data) ==
    LET traits == GetOr(character_data, "PersonalityTraits", <<>>)
    IN  IF GetOr(character_data, "Origin", PyNone) = "Celestial"
        THEN EntryGet(GetOr(symbols, "Circle", StrEntry(EmptyDict)), "name")
        ELSE IF Contains(traits, "Brave")
        THEN EntryGet(GetOr(symbols, "Triangle", StrEntry(EmptyDict)), "name")
        ELSE EntryGet(GetOr(symbols, "Point", StrEntry(EmptyDict)), "name")

_determine_core_symbol(symbols, character_data) ==
    LET traits == GetOr(character_data, "PersonalityTraits", <<>>)
    IN  IF Contains(traits, "Brave")
        THEN EntryGet(GetOr(symbols, "Triangle", StrEntry(EmptyDict)), "name")
        ELSE IF GetOr(character_data, "Origin", PyNone) = "Celestial"
        THEN EntryGet(GetOr(symbols, "Circle", StrEntry(EmptyDict)), "name")
        ELSE EntryGet(GetOr(symbols, "Point", StrEntry(EmptyDict)), "name")

trait_map ==
    [Brave |-> "Triangle", Wise |-> "Spiral", Mysterious |-> "Wave",
     Compassionate |-> "Circle", Leader |-> "Angle"]

\* Faulty variant: a trait is kept whether or not the table has its symbol.
PersonalitySymbolsUnchecked(symbols, character_data) ==
    LET traits == GetOr(character_data, "PersonalityTraits", <<>>)
        Keep(trait) == trait \in DOMAIN trait_map
        kept == SelectSeq(traits, Keep)
    IN  [i \in 1..Len(kept) |-> trait_map[kept[i]]]

_determine_personality_symbols(symbols, character_data) ==
    LET traits == GetOr(character_data, "PersonalityTraits", <<>>)
        Keep(trait) == trait \in DOMAIN trait_map /\ trait_map[trait] \in DOMAIN symbols
        kept == SelectSeq(traits, Keep)
    IN  [i \in 1..Len(kept) |-> trait_map[kept[i]]]

role_map == [Warrior |-> "SwordSymbol", Mage |-> "StarSymbol"]

_determine_role_symbol(symbols, character_data) ==
    LET role == GetOr(character_data, "Role", PyNone)
        symbol_name == GetOr(role_map, role, "UnknownRole")
    IN  EntryGet(GetOr(symbols, symbol_name, StrEntry([name |-> "UnknownRole"])), "name")

UnknownAstrology == [Sign |-> "Unknown", Element |-> "Unknown", Modality |-> "Unknown"]

\* sign_info.get(...) raises AttributeError when the value under the sign's
\* name is a string.
_determine_astrological_profile(symbols, character_data) ==
    LET astro_data == GetOr(character_data, "AstrologicalData", EmptyDict)
        sign_name == GetOr(astro_data, "ZodiacSign", PyNone)
        zodiac == symbols["zodiac"]
    IN  IF sign_name # PyNone /\ sign_name # "" /\ HasKey(zodiac, sign_name)
        THEN IF sign_name \in DOMAIN zodiac.d
             THEN LET sign_info == zodiac.d[sign_name]
                  IN  Returned([Sign |-> sign_name,
                                Element |-> Get(sign_info, "element"),
                                Modality |-> Get(sign_info, "modality")])
             ELSE Raised("AttributeError")
        ELSE Returned(UnknownAstrology)

name_map == [Star |-> "StarSymbol", Sun |-> "SunSymbol"]

_determine_name_symbol(symbols, character_data) ==
    LET name_meaning == GetOr(GetOr(character_data, "NameData", EmptyDict),
                              "NameMeaning", PyNone)
        symbol_name == GetOr(name_map, name_meaning, "DefaultNameSymbol")
    IN  EntryGet(GetOr(symbols, symbol_name, StrEntry([name |-> "DefaultNameSymbol"])),
                 "name")

\* str(value) of a string or None, as an f-string renders it
PyStr(value) == IF value = PyNone THEN "None" ELSE value

\* the items of repr(list of str), comma separated, from item i on
RECURSIVE ReprItems(_, _)
ReprItems(seq, i) ==
    IF i > Len(seq) THEN ""
    ELSE (IF i > 1 THEN ", " ELSE "") \o "'" \o seq[i] \o "'" \o ReprItems(seq, i + 1)

PyListStr(seq) == "[" \o ReprItems(seq, 1) \o "]"

profile_character(symbols, character_data) ==
    LET core_symbol == _determine_core_symbol(symbols, character_data)
        personality_symbols == _determine_personality_symbols(symbols, character_data)
        role_symbol == _determine_role_symbol(symbols, character_data)
        astrological_profile == _determine_astrological_profile(symbols, character_data)
        name_symbol == _determine_name_symbol(symbols, character_data)
    IN  IF astrological_profile.raised # ""
        THEN Raised(astrological_profile.raised)
        ELSE Returned(
               [Core |-> core_symbol,
                Personality |-> personality_symbols,
                Role |-> role_symbol,
                Astrology |-> astrological_profile.value,
                Name |-> name_symbol,
                Symbolic_Representation |->
                    "Encapsulate(Superimpose(" \o PyStr(core_symbol) \o ", "
                    \o PyListStr(personality_symbols) \o "), " \o PyStr(role_symbol)
                    \o ") AdjacentTo(" \o PyStr(astrological_profile.value.Element)
                    \o ", " \o PyStr(astrological_profile.value.Modality)
                    \o ") Enclose(" \o PyStr(name_symbol) \o ")"])

-----------------------------------------------------------------------------
(* The file system and the constructor *)

Files == {"a.jsonld", "b.jsonld"}

Missing == [kind |-> "missing"]          \* open() raises
Malformed == [kind |-> "malformed"]      \* json.load() raises
Json(doc) == [kind |-> "json", doc |-> doc]

\* Faulty variant: a file that does not parse is read as an empty document.
ReadFileLenient(content) ==
    CASE content.kind = "missing" -> Raised("FileNotFoundError")
      [] content.kind = "malformed" -> Returned(Document(<<>>))
      [] content.kind = "json" -> Returned(content.doc)

\* with open(symbology_file, 'r') as f: json.load(f)
ReadFile(content) ==
    CASE content.kind = "missing" -> Raised("FileNotFoundError")
      [] content.kind = "malformed" -> Raised("JSONDecodeError")
      [] content.kind = "json" -> Returned(content.doc)

NoCall == [op |-> "none"]

ConstructorCall(f, raised, read, derived, i) ==
    [op |-> "__init__", file |-> f, raised |-> raised, read |-> read,
     derived |-> derived, first |-> loadedBy[f], inst |-> i]

\* what every call leaves of the profile_character call before it
TrackPrev == prev' = IF ret.op = "profile_character" THEN ret ELSE prev

\* Faulty variant: the document cache is never consulted.
NeverInSymbologyCache(symbology_file) == FALSE

\* symbology_file in self._symbology_cache
InSymbologyCache(symbology_file) == symbology_file \in DOMAIN _symbology_cache

\* symbology_file in self._symbols_cache
InSymbolsCache(symbology_file) == symbology_file \in DOMAIN _symbols_cache

\* CharacterProfiler(symbology_file), run without interruption. The call reads
\* only if the identifier is not in _symbology_cache and derives only if it is
\* not in _symbols_cache; an error leaves what the call had stored by then.
__init__(symbology_file) ==
    LET f == symbology_file
        cachedDoc == InSymbologyCache(f)
        rd == ReadFile(files[f])
    IN  /\ Len(inst) < MaxInst
        /\ cachedDoc \/ rd.raised # "" \/ Len(heap) < MaxInst
        /\ TrackPrev
        /\ UNCHANGED <<files, thr, arg>>
        /\ IF ~cachedDoc /\ rd.raised # ""
           THEN /\ ret' = ConstructorCall(f, rd.raised, TRUE, FALSE, 0)
                /\ UNCHANGED <<heap, _symbology_cache, _symbols_cache, inst, loadedBy>>
           ELSE LET heap1 == IF cachedDoc THEN heap ELSE Append(heap, rd.value)
                    cache1 == IF cachedDoc THEN _symbology_cache
                              ELSE (f :> Len(heap1)) @@ _symbology_cache
                    symbology == cache1[f]
                    cachedTab == InSymbolsCache(f)
                    ex == _extract_symbols(heap1[symbology])
                IN  /\ _symbology_cache' = cache1
                    /\ heap' = IF cachedTab THEN heap1
                               ELSE [heap1 EXCEPT ![symbology] = ex.doc]
                    /\ IF ~cachedTab /\ ex.raised # ""
                       THEN /\ ret' = ConstructorCall(f, ex.raised, ~cachedDoc, TRUE, 0)
                            /\ UNCHANGED <<_symbols_cache, inst, loadedBy>>
                       ELSE /\ _symbols_cache' =
                                  IF cachedTab THEN _symbols_cache
                                  ELSE (f :> ex.symbols) @@ _symbols_cache
                            /\ inst' = Append(inst, [file |-> f, symbology |-> symbology,
                                                     symbols |-> _symbols_cache'[f]])
                            /\ loadedBy' = IF loadedBy[f] = 0
                                           THEN [loadedBy EXCEPT ![f] = Len(inst')]
                                           ELSE loadedBy
                            /\ ret' = ConstructorCall(f, "", ~cachedDoc, ~cachedTab,
                                                      Len(inst'))

\* CharacterProfiler._symbology_cache.clear()
ClearSymbologyCache ==
    /\ _symbology_cache' = EmptyDict
    /\ loadedBy' = [f \in Files |-> 0]
    /\ ret' = [op |-> "clear", cache |-> "_symbology_cache"]
    /\ TrackPrev
    /\ UNCHANGED <<files, heap, _symbols_cache, inst, thr, arg>>

\* CharacterProfiler._symbols_cache.clear()
ClearSymbolsCache ==
    /\ _symbols_cache' = EmptyDict
    /\ loadedBy' = [f \in Files |-> 0]
    /\ ret' = [op |-> "clear", cache |-> "_symbols_cache"]
    /\ TrackPrev
    /\ UNCHANGED <<files, heap, _symbology_cache, inst, thr, arg>>

\* One call of a resolver method on profiler i.
Call(op, i, character_data, result) ==
    /\ i \in 1..Len(inst)
    /\ ret' = [op |-> op, inst |-> i, character |-> character_data, result |-> result]
    /\ UNCHANGED <<files, heap, _symbology_cache, _symbols_cache, inst, thr, loadedBy,
                   arg>>

\* Faulty variant: profile_character takes the table from the class cache and puts the
\* profiler's own table back there when the cache has none.
CallProfileCharacterThroughCache(i, character_data) ==
    LET f == inst[i].file
        symbols == IF InSymbolsCache(f) THEN _symbols_cache[f] ELSE inst[i].symbols
    IN  /\ i \in 1..Len(inst)
        /\ ret' = [op |-> "profile_character", inst |-> i, character |-> character_data,
                   result |-> profile_character(symbols, character_data)]
        /\ _symbols_cache' = (f :> symbols) @@ _symbols_cache
        /\ UNCHANGED <<files, heap, _symbology_cache, inst, thr, loadedBy, arg>>

CallProfileCharacter(i, character_data) ==
    Call("profile_character", i, character_data,
         profile_character(inst[i].symbols, character_data))

CallDetermineCoreSymbol(i, character_data) ==
    Call("_determine_core_symbol", i, character_data,
         _determine_core_symbol(inst[i].symbols, character_data))

CallDeterminePersonalitySymbols(i, character_data) ==
    Call("_determine_personality_symbols", i, character_data,
         _determine_personality_symbols(inst[i].symbols, character_data))

CallDetermineRoleSymbol(i, character_data) ==
    Call("_determine_role_symbol", i, character_data,
         _determine_role_symbol(inst[i].symbols, character_data))

CallDetermineAstrologicalProfile(i, character_data) ==
    Call("_determine_astrological_profile", i, character_data,
         _determine_astrological_profile(inst[i].symbols, character_data))

CallDetermineNameSymbol(i, character_data) ==
    Call("_determine_name_symbol", i, character_data,
         _determine_name_symbol(inst[i].symbols, character_data))

-----------------------------------------------------------------------------
(* Sequential runs: constructor calls, cache clears and profile_character   *)
(* calls in any order, each run to its end before the next starts.          *)

\* what the files of a sequential run may hold: the first any of these, the
\* second nothing or the plain document
SeqContents ==
    {Missing, Malformed, Json(DocNoSections), Json(DocPlain), Json(DocZodiacFirst),
     Json(DocNameless)}

SeqFiles ==
    {fs \in [Files -> SeqContents] : fs["b.jsonld"] \in {Missing, Json(DocPlain)}}

NoThreads == [t \in 1..NumThreads |-> [pc |-> "idle"]]

Init ==
    /\ files \in SeqFiles
    /\ heap = <<>>
    /\ _symbology_cache = EmptyDict
    /\ _symbols_cache = EmptyDict
    /\ inst = <<>>
    /\ thr = NoThreads
    /\ ret = NoCall
    /\ prev = NoCall
    /\ loadedBy = [f \in Files |-> 0]
    /\ arg = EmptyDict

Construct == \E f \in Files : __init__(f)

Profile ==
    \E i \in 1..Len(inst), c \in FewCharacters :
        CallProfileCharacter(i, c) /\ TrackPrev

Next ==
    \/ Construct
    \/ ClearSymbologyCache
    \/ ClearSymbolsCache
    \/ Profile

Spec == Init /\ [][Next]_vars

-----------------------------------------------------------------------------
(* Resolver runs: one profiler built from any of the documents, then the    *)
(* resolver methods called on it, in any order, with any one character.     *)

InitResolver ==
    /\ \E doc \in Docs :
          files = [f \in Files |-> IF f = "a.jsonld" THEN Json(doc) ELSE Missing]
    /\ heap = <<>>
    /\ _symbology_cache = EmptyDict
    /\ _symbols_cache = EmptyDict
    /\ inst = <<>>
    /\ thr = NoThreads
    /\ ret = NoCall
    /\ prev = NoCall
    /\ loadedBy = [f \in Files |-> 0]
    /\ arg \in Characters

Load == inst = <<>> /\ ret = NoCall /\ __init__("a.jsonld")


ResolveProfile == CallProfileCharacter(1, arg) /\ UNCHANGED prev

ResolveCore == CallDetermineCoreSymbol(1, arg) /\ UNCHANGED prev

ResolvePersonality == CallDeterminePersonalitySymbols(1, arg) /\ UNCHANGED prev

ResolveRole == CallDetermineRoleSymbol(1, arg) /\ UNCHANGED prev

ResolveAstrology == CallDetermineAstrologicalProfile(1, arg) /\ UNCHANGED prev

ResolveName == CallDetermineNameSymbol(1, arg) /\ UNCHANGED prev

NextResolver ==
    \/ Load
    \/ ResolveProfile
    \/ ResolveCore
    \/ ResolvePersonality
    \/ ResolveRole
    \/ ResolveAstrology
    \/ ResolveName

SpecResolver == InitResolver /\ [][NextResolver]_vars

-----------------------------------------------------------------------------
(* Concurrent runs: NumThreads threads each run the constructor for the     *)
(* same identifier, not cached yet, with no lock; a thread may be preempted *)
(* between any two of its reads and writes of the caches. _extract_symbols  *)
(* works on the thread's own table and writes equal values into the         *)
(* document it reads, so its steps are taken together.                      *)

Threads == 1..NumThreads

NewThread ==
    [pc |-> "check_document", file |-> "a.jsonld", doc |-> 0, symbology |-> 0,
     tab |-> EmptyDict, symbols |-> EmptyDict, raised |-> ""]

InitConcurrent ==
    /\ \E content \in {Missing, Malformed} \cup {Json(doc) : doc \in Docs} :
          files = [f \in Files |-> IF f = "a.jsonld" THEN content ELSE Missing]
    /\ heap = <<>>
    /\ _symbology_cache = EmptyDict
    /\ _symbols_cache = EmptyDict
    /\ inst = <<>>
    /\ thr = [t \in Threads |-> NewThread]
    /\ ret = NoCall
    /\ prev = NoCall
    /\ loadedBy = [f \in Files |-> 0]
    /\ arg = EmptyDict

At(t, pc) == thr[t].pc = pc

Goto(t, pc) == thr' = [thr EXCEPT ![t].pc = pc]

ThreadFrame == UNCHANGED <<files, inst, ret, prev, loadedBy, arg>>

\* if symbology_file not in self._symbology_cache:
CheckDocumentCache(t) ==
    /\ At(t, "check_document")
    /\ Goto(t, IF InSymbologyCache(thr[t].file) THEN "bind_document" ELSE "read")
    /\ UNCHANGED <<heap, _symbology_cache, _symbols_cache>>
    /\ ThreadFrame

\* with open(symbology_file, 'r') as f: json.load(f)
Read(t) ==
    /\ At(t, "read")
    /\ LET rd == ReadFile(files[thr[t].file])
       IN  IF rd.raised # ""
           THEN /\ thr' = [thr EXCEPT ![t].pc = "raised", ![t].raised = rd.raised]
                /\ UNCHANGED heap
           ELSE /\ heap' = Append(heap, rd.value)
                /\ thr' = [thr EXCEPT ![t].pc = "store_document", ![t].doc = Len(heap')]
    /\ UNCHANGED <<_symbology_cache, _symbols_cache>>
    /\ ThreadFrame

\* self._symbology_cache[symbology_file] = <the document read>
StoreDocument(t) ==
    /\ At(t, "store_document")
    /\ _symbology_cache' = (thr[t].file :> thr[t].doc) @@ _symbology_cache
    /\ Goto(t, "bind_document")
    /\ UNCHANGED <<heap, _symbols_cache>>
    /\ ThreadFrame

\* self.symbology = self._symbology_cache[symbology_file]
BindDocument(t) ==
    /\ At(t, "bind_document")
    /\ thr' = [thr EXCEPT ![t].pc = "check_table",
                          ![t].symbology = _symbology_cache[thr[t].file]]
    /\ UNCHANGED <<heap, _symbology_cache, _symbols_cache>>
    /\ ThreadFrame

\* if symbology_file not in self._symbols_cache:
CheckTableCache(t) ==
    /\ At(t, "check_table")
    /\ Goto(t, IF InSymbolsCache(thr[t].file) THEN "bind_table" ELSE "derive")
    /\ UNCHANGED <<heap, _symbology_cache, _symbols_cache>>
    /\ ThreadFrame

\* self._extract_symbols()
Derive(t) ==
    /\ At(t, "derive")
    /\ LET ex == _extract_symbols(heap[thr[t].symbology])
       IN  /\ heap' = [heap EXCEPT ![thr[t].symbology] = ex.doc]
           /\ thr' = IF ex.raised # ""
                     THEN [thr EXCEPT ![t].pc = "raised", ![t].raised = ex.raised]
                     ELSE [thr EXCEPT ![t].pc = "store_table", ![t].tab = ex.symbols]
    /\ UNCHANGED <<_symbology_cache, _symbols_cache>>
    /\ ThreadFrame

\* self._symbols_cache[symbology_file] = <the table derived>
StoreTable(t) ==
    /\ At(t, "store_table")
    /\ _symbols_cache' = (thr[t].file :> thr[t].tab) @@ _symbols_cache
    /\ Goto(t, "bind_table")
    /\ UNCHANGED <<heap, _symbology_cache>>
    /\ ThreadFrame

\* self.symbols = self._symbols_cache[symbology_file]
BindTable(t) ==
    /\ At(t, "bind_table")
    /\ thr' = [thr EXCEPT ![t].pc = "done",
                          ![t].symbols = _symbols_cache[thr[t].file]]
    /\ UNCHANGED <<heap, _symbology_cache, _symbols_cache>>
    /\ ThreadFrame

NextConcurrent ==
    \E t \in Threads :
        \/ CheckDocumentCache(t)
        \/ Read(t)
        \/ StoreDocument(t)
        \/ BindDocument(t)
        \/ CheckTableCache(t)
        \/ Derive(t)
        \/ StoreTable(t)
        \/ BindTable(t)

SpecConcurrent == InitConcurrent /\ [][NextConcurrent]_vars

-----------------------------------------------------------------------------
(* What the claims speak of *)

\* the document of profiler i has a section named "Universal Symbology Framework"
HasFramework(i) == _find_section(heap[inst[i].symbology], FrameworkName) # 0

\* every supplemental symbol is in the table with its fixed name and description
SupplementalPresent(symbols) ==
    \A k \in DOMAIN SupplementalSymbols :
        k \in DOMAIN symbols /\ symbols[k] = SupplementalSymbols[k]

TraitsOf(character_data) == GetOr(character_data, "PersonalityTraits", <<>>)
OriginOf(character_data) == GetOr(character_data, "Origin", PyNone)
RoleOf(character_data) == GetOr(character_data, "Role", PyNone)
SignOf(character_data) ==
    GetOr(GetOr(character_data, "AstrologicalData", EmptyDict), "ZodiacSign", PyNone)
NameMeaningOf(character_data) ==
    GetOr(GetOr(character_data, "NameData", EmptyDict), "NameMeaning", PyNone)

SameResult(r1, r2) == r1.raised = r2.raised /\ (r1.raised = "" => r1.value = r2.value)

ExpectedCore(character_data) ==
    IF Contains(TraitsOf(character_data), "Brave") THEN "Triangle"
    ELSE IF OriginOf(character_data) = "Celestial" THEN "Circle"
    ELSE "Point"

MappedSymbol(trait) ==
    CASE trait = "Brave" -> "Triangle"
      [] trait = "Wise" -> "Spiral"
      [] trait = "Mysterious" -> "Wave"
      [] trait = "Compassionate" -> "Circle"
      [] trait = "Leader" -> "Angle"
      [] OTHER -> PyNone

RECURSIVE ExpectedPersonality(_, _)
ExpectedPersonality(traits, symbols) ==
    IF traits = <<>> THEN <<>>
    ELSE LET symbol == MappedSymbol(Head(traits))
             rest == ExpectedPersonality(Tail(traits), symbols)
         IN  IF symbol # PyNone /\ symbol \in DOMAIN symbols
             THEN <<symbol>> \o rest
             ELSE rest

\* what one constructor call for a file with this content, from empty caches,
\* leaves in the two caches: each a sequence of no or one value
SequentialLoad(content) ==
    LET rd == ReadFile(content)
        ex == _extract_symbols(rd.value)
    IN  IF rd.raised # "" THEN [document |-> <<>>, table |-> <<>>]
        ELSE [document |-> <<ex.doc>>,
              table |-> IF ex.raised = "" THEN <<ex.symbols>> ELSE <<>>]

-----------------------------------------------------------------------------
(* The claims *)

\* C1: a constructor call for an identifier that an earlier successful call has
\* loaded, with no cache clear since, reads no file, derives no table and
\* succeeds, and its symbology and symbols equal by value those of that first
\* call; so a read or a derivation happens only on a first request.
C1_CachedLoadIsReused ==
    (ret.op = "__init__" /\ ret.first # 0) =>
        /\ ~ret.read
        /\ ~ret.derived
        /\ ret.raised = ""
        /\ ret.inst \in 1..Len(inst)
        /\ heap[inst[ret.inst].symbology] = heap[inst[ret.first].symbology]
        /\ inst[ret.inst].symbols = inst[ret.first].symbols

\* a second profiler was built for an identifier loaded before
C1_Witness ==
    /\ ret.op = "__init__"
    /\ ret.first # 0
    /\ ret.inst > ret.first
    /\ inst[ret.inst].file = inst[ret.first].file

\* C2 as stated: the table of every profiler built from a structurally valid
\* document holds all twelve supplemental symbols with their fixed name and
\* description.
C2_Original == \A i \in 1..Len(inst) : SupplementalPresent(inst[i].symbols)

\* C2 amended: the table holds all twelve supplemental symbols, each with its
\* fixed name and description, overriding a document entry of the same name,
\* when the document has a section named "Universal Symbology Framework"; when
\* it has none the table is {"zodiac": {}} and holds no supplemental symbol.
C2_SupplementalWithFramework ==
    \A i \in 1..Len(inst) :
        IF HasFramework(i)
        THEN SupplementalPresent(inst[i].symbols)
        ELSE inst[i].symbols = InitialSymbols

\* a profiler built from the document whose element and modality are named
\* "Triangle" and "Point"
C2_Witness ==
    /\ Len(inst) = 1
    /\ files["a.jsonld"] = Json(DocSupplementalNames)
    /\ HasFramework(1)

\* C3 as stated: for every table the loader derives, _determine_core_symbol
\* returns "Triangle" when "Brave" is a trait, else "Circle" when Origin is
\* "Celestial", else "Point".
C3_Original ==
    ret.op = "_determine_core_symbol" => ret.result = ExpectedCore(ret.character)

\* C3 amended: that holds for a table derived from a document with a section
\* named "Universal Symbology Framework"; for a document without one
\* _determine_core_symbol returns None.
C3_CoreSymbolWithFramework ==
    ret.op = "_determine_core_symbol" =>
        ret.result = IF HasFramework(ret.inst) THEN ExpectedCore(ret.character)
                     ELSE PyNone

\* a brave character of celestial origin resolved to "Triangle"
C3_Witness ==
    /\ ret.op = "_determine_core_symbol"
    /\ Contains(TraitsOf(ret.character), "Brave")
    /\ OriginOf(ret.character) = "Celestial"
    /\ ret.result = "Triangle"

\* C4: _determine_personality_symbols returns the traits in input order, each
\* trait of the fixed map whose symbol is a key of the table replaced by that
\* symbol, every other trait dropped, duplicates kept; no traits, absent traits
\* or unknown traits only give the empty list.
C4_PersonalitySymbols ==
    ret.op = "_determine_personality_symbols" =>
        ret.result = ExpectedPersonality(TraitsOf(ret.character),
                                         inst[ret.inst].symbols)

\* a repeated trait gave a repeated symbol
C4_Witness ==
    /\ ret.op = "_determine_personality_symbols"
    /\ TraitsOf(ret.character) = <<"Leader", "Leader">>
    /\ ret.result = <<"Angle", "Angle">>

\* C5 as stated: _determine_astrological_profile returns the sign with the
\* element and modality fields of its record when the character's sign is a key
\* of the table's "zodiac" entry, and the "Unknown" record when the sign is
\* absent (an empty sign name counted as absent) or no such key.
C5_Original ==
    ret.op = "_determine_astrological_profile" =>
        LET s == SignOf(ret.character)
            zodiac == inst[ret.inst].symbols["zodiac"]
        IN  IF s # PyNone /\ s # "" /\ HasKey(zodiac, s)
            THEN /\ ret.result.raised = ""
                 /\ s \in DOMAIN zodiac.d
                 /\ ret.result.value =
                        [Sign |-> s, Element |-> Get(zodiac.d[s], "element"),
                         Modality |-> Get(zodiac.d[s], "modality")]
            ELSE ret.result = Returned(UnknownAstrology)

\* C6 as stated: a Role that is absent or neither "Warrior" nor "Mage" resolves
\* to "UnknownRole", and a NameMeaning that is absent or neither "Star" nor "Sun"
\* resolves to "DefaultNameSymbol".
C6_Original ==
    /\ (ret.op = "_determine_role_symbol"
          /\ RoleOf(ret.character) \notin {"Warrior", "Mage"})
       => ret.result = "UnknownRole"
    /\ (ret.op = "_determine_name_symbol"
          /\ NameMeaningOf(ret.character) \notin {"Star", "Sun"})
       => ret.result = "DefaultNameSymbol"

\* C7 as stated: profile_character raises nothing and returns a record with the
\* keys Core, Personality, Role, Astrology, Name and Symbolic_Representation.
C7_Original ==
    ret.op = "profile_character" =>
        /\ ret.result.raised = ""
        /\ DOMAIN ret.result.value =
              {"Core", "Personality", "Role", "Astrology", "Name",
               "Symbolic_Representation"}

\* C8: a constructor call for a file that is missing or does not parse as JSON
\* raises the error of open() or json.load() to the caller, builds no profiler
\* and leaves both caches and every cached document as they were; every such
\* call, a later one for the same identifier included, attempts the read.
C8_FailedLoadLeavesCaches ==
    [][(ret'.op = "__init__" /\ files[ret'.file].kind \in {"missing", "malformed"}) =>
          /\ ret'.raised = (IF files[ret'.file].kind = "missing"
                            THEN "FileNotFoundError" ELSE "JSONDecodeError")
          /\ ret'.read
          /\ ret'.inst = 0
          /\ UNCHANGED <<_symbology_cache, _symbols_cache, heap, inst>>]_vars

\* a load of an unparseable file failed while the caches held another document
C8_Witness ==
    /\ ret.op = "__init__"
    /\ ret.raised = "JSONDecodeError"
    /\ ~InSymbologyCache(ret.file)
    /\ ~InSymbolsCache(ret.file)
    /\ InSymbologyCache("b.jsonld")
    /\ InSymbolsCache("b.jsonld")

\* C9 as stated: when every thread has left the constructor, the two caches hold
\* for the identifier what one sequential load leaves there, and every profiler
\* constructed sees a symbology and a symbol table equal by value to them.
C9_Original ==
    (\A t \in Threads : thr[t].pc \in {"done", "raised"}) =>
        LET f == "a.jsonld"
            seq == SequentialLoad(files[f])
        IN  /\ InSymbologyCache(f) <=> seq.document # <<>>
            /\ InSymbolsCache(f) <=> seq.table # <<>>
            /\ InSymbologyCache(f) => heap[_symbology_cache[f]] = seq.document[1]
            /\ InSymbolsCache(f) => _symbols_cache[f] = seq.table[1]
            /\ \A t \in Threads :
                  thr[t].pc = "done" =>
                      /\ heap[thr[t].symbology] = seq.document[1]
                      /\ thr[t].symbols = seq.table[1]

\* two profile_character calls with equal tables and equal characters returned
\* equal results
ProfileIsAFunction ==
    (/\ prev.op = "profile_character"
     /\ ret.op = "profile_character"
     /\ inst[prev.inst].symbols = inst[ret.inst].symbols
     /\ prev.character = ret.character)
    => SameResult(prev.result, ret.result)

\* a profile_character call changes neither cache, no document and no profiler
ProfileChangesNothing ==
    ret'.op = "profile_character" =>
        UNCHANGED <<files, heap, _symbology_cache, _symbols_cache, inst>>

=============================================================================
